---------------------------- MODULE Spec2Model ----------------------------
(***************************************************************************)
(* Shaft Fatigue Analyzer (src/Shaft2.py): one Streamlit script.  Every    *)
(* interaction re-runs the script top to bottom in a new namespace (a      *)
(* "render pass"): the sidebar widgets deliver the inputs, the formula     *)
(* chain derives Kt .. sigma_ar, and the four tabs and the footer render.  *)
(* An exception raised by a statement ends the pass at that statement.     *)
(*                                                                         *)
(* Python floats are modelled as decimal floating-point numbers with a     *)
(* four-digit mantissa: <<"float", m, e>> stands for m * 10^e with         *)
(* 1000 <= |m| <= 9999, or m = 0 and e = 0.  Every operation rounds its    *)
(* result to four digits, as every float operation rounds to 53 bits.      *)
(* None is <<"None", 0, 0>>; a name not yet assigned in the pass is        *)
(* <<"unbound", 0, 0>>.                                                    *)
(***************************************************************************)
EXTENDS Integers, Sequences, FiniteSets, TLC

VARIABLES widgets, ns, page, pc, exc, prev

vars == <<widgets, ns, page, pc, exc, prev>>

-----------------------------------------------------------------------------
(* Floating-point arithmetic *)

None == <<"None", 0, 0>>
Unbound == <<"unbound", 0, 0>>

IsFloat(x) == x[1] = "float"

Abs(n) == IF n < 0 THEN -n ELSE n
Sgn(n) == IF n < 0 THEN -1 ELSE IF n = 0 THEN 0 ELSE 1

RECURSIVE Pow10(_)
Pow10(k) == IF k <= 0 THEN 1 ELSE 10 * Pow10(k - 1)

\* m * 10^e rounded (half away from zero) to a four-digit mantissa
RECURSIVE Norm(_, _)
Norm(m, e) ==
    IF m = 0 THEN <<"float", 0, 0>>
    ELSE IF Abs(m) >= 10000 THEN Norm(Sgn(m) * ((Abs(m) + 5) \div 10), e + 1)
    ELSE IF Abs(m) < 1000 THEN Norm(m * 10, e - 1)
    ELSE <<"float", m, e>>

\* the float literal  n * 10^e  of the source text
Lit(n, e) == Norm(n, e)

Zero == Lit(0, 0)
One == Lit(1, 0)

Neg(x) == <<"float", -x[2], x[3]>>

Mul(x, y) == Norm(x[2] * y[2], x[3] + y[3])

\* x / y for y # 0 (the callers raise ZeroDivisionError before dividing by 0)
Div(x, y) ==
    Norm(Sgn(x[2]) * Sgn(y[2]) * ((Abs(x[2]) * 100000) \div Abs(y[2])),
         x[3] - y[3] - 5)

Add(x, y) ==
    IF x[2] = 0 THEN y
    ELSE IF y[2] = 0 THEN x
    ELSE LET d == x[3] - y[3] IN
         IF d > 4 THEN x
         ELSE IF d < -4 THEN y
         ELSE IF d >= 0 THEN Norm(x[2] * Pow10(d) + y[2], y[3])
         ELSE Norm(x[2] + y[2] * Pow10(-d), x[3])

Sub(x, y) == Add(x, Neg(y))

Lt(x, y) == Sub(x, y)[2] < 0
Le(x, y) == Sub(x, y)[2] <= 0
Gt(x, y) == Lt(y, x)
Ge(x, y) == Le(y, x)

\* floor of the square root of n, 0 <= n < 10^9, by Newton's iteration
RECURSIVE ISqrtFrom(_, _)
ISqrtFrom(n, x) ==
    LET y == (x + n \div x) \div 2
    IN  IF y >= x THEN x ELSE ISqrtFrom(n, y)

ISqrt(n) == IF n = 0 THEN 0 ELSE ISqrtFrom(n, 31623)

\* math.sqrt(x) for x >= 0 (the callers raise ValueError for x < 0)
Sqrt(x) ==
    IF x[2] = 0 THEN Zero
    ELSE IF x[3] % 2 = 0 THEN Norm(ISqrt(x[2] * 10000), (x[3] - 4) \div 2)
    ELSE Norm(ISqrt(x[2] * 100000), (x[3] - 5) \div 2)

\* x ** k for an integer k >= 0
RECURSIVE PowInt(_, _)
PowInt(x, k) == IF k <= 0 THEN One ELSE Mul(x, PowInt(x, k - 1))

\* binary digits of the fractional part of an exponent that x ** y evaluates
PowBits == 12

\* x ** (fr / den) for x > 0 and 0 <= fr < den: the product of the roots
\* x^(1/2), x^(1/4), ... selected by the binary digits of fr / den
RECURSIVE FracPow(_, _, _, _)
FracPow(root, fr, den, k) ==
    IF k = 0 \/ fr = 0 THEN One
    ELSE LET s == Sqrt(root) IN
         IF 2 * fr >= den
         THEN Mul(s, FracPow(s, 2 * fr - den, den, k - 1))
         ELSE FracPow(s, 2 * fr, den, k - 1)

\* x ** y for floats x > 0 and y (Python's float.__pow__)
Pow(x, y) ==
    LET den == Pow10(-y[3])
        num == Abs(y[2]) * Pow10(y[3])
        p == Mul(PowInt(x, num \div den), FracPow(x, num % den, den, PowBits))
    IN  IF y[2] < 0 THEN Div(One, p) ELSE p

\* format(x, ".<d>f"): the decimal number with d digits after the point
Fmt(x, d) ==
    IF x[2] = 0 \/ x[3] >= -d THEN x
    ELSE IF -d - x[3] > 4 THEN Zero
    ELSE LET k == Pow10(-d - x[3])
         IN  Norm(Sgn(x[2]) * ((Abs(x[2]) + k \div 2) \div k), -d)


Truthy(x) == IsFloat(x) /\ x[2] # 0

-----------------------------------------------------------------------------
(* Sidebar widgets (lines 62-92) *)

MaterialTypes == {"Steel", "Aluminum", "Titanium", "Custom"}
LoadTypes == {"Rotating", "Reversed", "Fluctuating"}

\* min_value of the Da, Db, L number_inputs and of the fillet radius r
MinDiameter == Lit(1, -1)
\* as MinR, had the radius been given min_value=0.0 like the locations
MinRZero == Zero
MinR == Lit(1, -1)
MinLength == Lit(1, -1)
MinLocation == Zero
MinStrength == Lit(100, 0)

\* default value= of the two surface-factor number_inputs
DefaultA == Lit(451, -2)
DefaultB == Lit(-265, -3)

\* values a user may try to enter: <<Da, Db, r>>
GeometryCases ==
    { <<Lit(38, 0), Lit(32, 0), Lit(3, 0)>>,
      <<Lit(38, 0), Lit(38, 0), Lit(3, 0)>>,
      <<Lit(5, 0), Lit(32, 0), Lit(1, -1)>>,
      <<Lit(762, -2), Lit(2, 0), Lit(1, -1)>>,
      <<Lit(51, 0), Lit(38, 0), Lit(3, 0)>>,
      <<Lit(60, 0), Lit(32, 0), Lit(3, 0)>>,
      <<Lit(300, 0), Lit(300, 0), Lit(1, -1)>>,
      <<Lit(300, 0), Lit(38, 0), Lit(3, 0)>>,
      <<Lit(38, 0), Lit(32, 0), Zero>> }

\* <<L, Lfa, Fb>>
BeamCases ==
    { <<Lit(550, 0), Lit(225, 0), Lit(1500, 0)>>,
      <<Lit(550, 0), Lit(250, 0), Lit(550, 0)>>,
      <<Lit(550, 0), Zero, Lit(1500, 0)>>,
      <<Lit(550, 0), Lit(225, 0), Lit(5, 5)>>,
      <<Lit(550, 0), Lit(225, 0), Lit(12, 5)>>,
      <<Lit(550, 0), Lit(225, 0), Lit(-1500, 0)>> }

UTSCases == { Lit(100, 0), Lit(3399, -1), Lit(340, 0), Lit(690, 0),
              Lit(1700, 0), Lit(1701, 0), Lit(50, 0) }

SyCases == { Lit(100, 0), Lit(490, 0) }

\* <<material_type, a, b>>: the a and b number_inputs exist only for
\* Titanium and Custom (lines 84-86).  The exponents b stay where UTS ** b
\* is representable; a b large enough to overflow the float (OverflowError
\* at line 107) is outside these cases.
MaterialCases ==
    { <<"Steel", DefaultA, DefaultB>>,
      <<"Aluminum", DefaultA, DefaultB>>,
      <<"Titanium", DefaultA, DefaultB>>,
      <<"Titanium", Lit(158, -2), Lit(-85, -3)>>,
      <<"Custom", DefaultA, DefaultB>>,
      <<"Custom", Lit(158, -2), Lit(-85, -3)>> }

\* <<Fa, Lfb, load_type>>
OtherCases ==
    { <<Lit(1000, 0), Lit(300, 0), "Rotating">>,
      <<Zero, Zero, "Reversed">>,
      <<Lit(1000, 0), Lit(300, 0), "Fluctuating">> }

Widget(g, bm, u, sy, m, o) ==
    [Da |-> g[1], Db |-> g[2], r |-> g[3], L |-> bm[1], Lfa |-> bm[2],
     Lfb |-> o[2], material_type |-> m[1], UTS |-> u, Sy |-> sy,
     a |-> m[2], b |-> m[3], Fa |-> o[1], Fb |-> bm[3], load_type |-> o[3]]

\* number_input refuses a value below its min_value
WidgetOK(w) ==
    /\ Ge(w.Da, MinDiameter) /\ Ge(w.Db, MinDiameter) /\ Ge(w.r, MinR)
    /\ Ge(w.L, MinLength) /\ Ge(w.Lfa, MinLocation) /\ Ge(w.Lfb, MinLocation)
    /\ Ge(w.UTS, MinStrength) /\ Ge(w.Sy, MinStrength)
    /\ w.material_type \in MaterialTypes /\ w.load_type \in LoadTypes

Inputs ==
    { w \in { Widget(g, bm, u, sy, m, o) :
                g \in GeometryCases, bm \in BeamCases, u \in UTSCases,
                sy \in SyCases, m \in MaterialCases, o \in OtherCases } :
      WidgetOK(w) }

\* the value= defaults of the widgets: the first pass of a session
Defaults ==
    Widget(<<Lit(38, 0), Lit(32, 0), Lit(3, 0)>>,
           <<Lit(550, 0), Lit(225, 0), Lit(1500, 0)>>,
           Lit(690, 0), Lit(490, 0), <<"Steel", DefaultA, DefaultB>>,
           <<Lit(1000, 0), Lit(300, 0), "Rotating">>)

Geometry(w) == <<w.Da, w.Db, w.r>>
Beam(w) == <<w.L, w.Lfa, w.Fb>>
Material(w) == <<w.material_type, w.a, w.b>>
Other(w) == <<w.Fa, w.Lfb, w.load_type>>

\* the widget states one interaction away from w: the user edits one
\* expander's group of widgets (or one strength) before the script runs again
Edits(w) ==
    { Widget(g, Beam(w), w.UTS, w.Sy, Material(w), Other(w)) :
        g \in GeometryCases }
    \cup { Widget(Geometry(w), bm, w.UTS, w.Sy, Material(w), Other(w)) :
             bm \in BeamCases }
    \cup { Widget(Geometry(w), Beam(w), u, w.Sy, Material(w), Other(w)) :
             u \in UTSCases }
    \cup { Widget(Geometry(w), Beam(w), w.UTS, sy, Material(w), Other(w)) :
             sy \in SyCases }
    \cup { Widget(Geometry(w), Beam(w), w.UTS, w.Sy, m, Other(w)) :
             m \in MaterialCases }
    \cup { Widget(Geometry(w), Beam(w), w.UTS, w.Sy, Material(w), o) :
             o \in OtherCases }

-----------------------------------------------------------------------------
(* The script's namespace, the rendered page, the exception that ended it *)

Names == {"a", "b", "D_ratio", "r_ratio", "Kt", "Se_prime", "ka", "kb", "Se",
          "NC", "Kf", "M_B", "section_modulus", "sigma_ar", "safety_factor",
          "status"}

\* a run of the script starts with none of its names assigned
FreshNs == [n \in Names |-> Unbound]

\* as RerunNs, had the names of the last run survived into the next
KeptNs == ns

\* the namespace of a run that follows another: a new one as well
RerunNs == FreshNs

Elements == {"card_Se", "card_ka", "card_Kf", "card_kb", "card_sf",
             "card_verdict", "warning", "card_sigma", "table_Kf",
             "table_sigma", "table_sf", "tab2", "tab3", "report_Se",
             "report_sigma", "report_sf", "report_verdict", "download_sf",
             "footer"}

Absent == <<"absent", 0, 0>>
Shown == <<"shown", 0, 0>>
NA == <<"N/A", 0, 0>>

EmptyPage == [el \in Elements |-> Absent]

NoExc == <<"none", 0, 0>>

\* the statement at `line` raises `type`: the pass ends there, with
\* whatever was assigned and rendered before it
Raise(type, line, ns1, page1) ==
    /\ pc' = "error"
    /\ exc' = <<type, line, 0>>
    /\ ns' = ns1
    /\ page' = page1
    /\ UNCHANGED <<widgets, prev>>

Goto(next, ns1, page1) ==
    /\ pc' = next
    /\ ns' = ns1
    /\ page' = page1
    /\ UNCHANGED <<widgets, exc, prev>>

-----------------------------------------------------------------------------
(* The formula chain *)

\* as SurfaceConstants, with Aluminum's own constants in place of the
\* placeholder of line 83
SurfaceConstantsAluminum(w) ==
    IF w.material_type = "Steel" THEN <<Lit(451, -2), Lit(-265, -3)>>
    ELSE IF w.material_type = "Aluminum" THEN <<Lit(2, 0), Lit(-217, -3)>>
    ELSE <<w.a, w.b>>

\* lines 80-86
SurfaceConstants(w) ==
    IF w.material_type = "Steel" THEN <<Lit(451, -2), Lit(-265, -3)>>
    ELSE IF w.material_type = "Aluminum" THEN <<Lit(451, -2), Lit(-265, -3)>>
    ELSE <<w.a, w.b>>

\* line 97
KtOf(D_ratio, r_ratio) ==
    Add(One, Mul(Mul(Lit(5, -1), Sub(D_ratio, One)),
                 Add(One, Div(One, Sqrt(r_ratio)))))

\* line 108
KbOf(Da) ==
    IF Le(Lit(762, -2), Da) /\ Le(Da, Lit(51, 0))
    THEN Mul(Lit(124, -2), Pow(Da, Lit(-107, -3)))
    ELSE Mul(Lit(151, -2), Pow(Da, Lit(-157, -3)))

\* as NCOf, with the lower bound exclusive
NCOfExclusive(UTS) ==
    IF Lt(Lit(340, 0), UTS) /\ Le(UTS, Lit(1700, 0))
    THEN Sub(Add(Sub(Lit(124, -2), Mul(Lit(225, -5), UTS)),
                 Mul(Lit(160, -8), PowInt(UTS, 2))),
             Mul(Lit(411, -12), PowInt(UTS, 3)))
    ELSE None

\* lines 112-115
NCOf(UTS) ==
    IF Le(Lit(340, 0), UTS) /\ Le(UTS, Lit(1700, 0))
    THEN Sub(Add(Sub(Lit(124, -2), Mul(Lit(225, -5), UTS)),
                 Mul(Lit(160, -8), PowInt(UTS, 2))),
             Mul(Lit(411, -12), PowInt(UTS, 3)))
    ELSE None

\* lines 118-121, for r > 0
KfOf(Kt, NC, r) ==
    IF NC # None
    THEN Add(One, Div(Sub(Kt, One), Add(One, Div(NC, Sqrt(r)))))
    ELSE None

\* line 124
MomentOf(Lfa, Fb, L) == Sub(Div(Mul(Lfa, Fb), L), Lit(250, 0))

\* math.pi
Pi == Lit(3142, -3)

\* line 125
SectionModulus(Db) == Div(Mul(Pi, PowInt(Db, 3)), Lit(32, 0))

\* line 126, for section_modulus # 0
SigmaOf(Kf, M_B, section_modulus) ==
    IF Kf # None THEN Div(Mul(Kf, M_B), section_modulus) ELSE None

\* as HasStress, had line 154 tested the truth value of sigma_ar
HasStressTruthy(sigma_ar) == Truthy(sigma_ar)

\* line 154: the branch that assigns safety_factor
HasStress(sigma_ar) == sigma_ar # None

\* as IsSafe, with the threshold at 1
IsSafeAboveOne(safety_factor) == Gt(safety_factor, One)

\* lines 156, 160, 162 and 259: safety_factor > 1.5
IsSafe(safety_factor) == Gt(safety_factor, Lit(15, -1))

-----------------------------------------------------------------------------
(* One render pass, statement group by statement group *)

T(tag) == <<tag, 0, 0>>

\* lines 62-97: the widgets deliver their values; a, b and Kt are derived
Sidebar ==
    /\ pc = "sidebar"
    /\ LET w == widgets
           ab == SurfaceConstants(w)
           ns1 == [ns EXCEPT !.a = ab[1], !.b = ab[2]]
       IN  IF w.Db = Zero THEN Raise("ZeroDivisionError", 95, ns1, page)
           ELSE LET D == Div(w.Da, w.Db)
                    rr == Div(w.r, w.Db)
                    ns2 == [ns1 EXCEPT !.D_ratio = D, !.r_ratio = rr]
                IN  IF Lt(rr, Zero) THEN Raise("ValueError", 97, ns2, page)
                    ELSE IF Sqrt(rr) = Zero
                    THEN Raise("ZeroDivisionError", 97, ns2, page)
                    ELSE Goto("calc", [ns2 EXCEPT !.Kt = KtOf(D, rr)], page)

\* lines 105-126: the endurance limit, Neuber's constant, Kf and the stress
Calc ==
    /\ pc = "calc"
    /\ LET w == widgets
           Se_prime == Mul(Lit(5, -1), w.UTS)
           ka == Mul(ns.a, Pow(w.UTS, ns.b))
           kb == KbOf(w.Da)
           Se == Mul(Mul(ka, kb), Se_prime)
           NC == NCOf(w.UTS)
           ns1 == [ns EXCEPT !.Se_prime = Se_prime, !.ka = ka, !.kb = kb,
                             !.Se = Se, !.NC = NC]
       IN  IF NC # None /\ Lt(w.r, Zero)
           THEN Raise("ValueError", 119, ns1, page)
           ELSE IF NC # None /\ (Sqrt(w.r) = Zero
                                 \/ Add(One, Div(NC, Sqrt(w.r))) = Zero)
           THEN Raise("ZeroDivisionError", 119, ns1, page)
           ELSE LET Kf == KfOf(ns.Kt, NC, w.r)
                    ns2 == [ns1 EXCEPT !.Kf = Kf]
                IN  IF w.L = Zero
                    THEN Raise("ZeroDivisionError", 124, ns2, page)
                    ELSE LET M_B == MomentOf(w.Lfa, w.Fb, w.L)
                             Z == SectionModulus(w.Db)
                             ns3 == [ns2 EXCEPT !.M_B = M_B,
                                                !.section_modulus = Z]
                         IN  IF Kf # None /\ Z = Zero
                             THEN Raise("ZeroDivisionError", 126, ns3, page)
                             ELSE Goto("col1",
                                       [ns3 EXCEPT !.sigma_ar =
                                                     SigmaOf(Kf, M_B, Z)],
                                       page)

\* lines 131-140: the Endurance Limit and Surface Factor cards
Col1 ==
    /\ pc = "col1"
    /\ Goto("col2", ns, [page EXCEPT !.card_Se = Fmt(ns.Se, 1),
                                     !.card_ka = Fmt(ns.ka, 3)])

\* lines 142-151: the Stress Concentration and Size Factor cards;
\* format(None, ".2f") raises TypeError
Col2 ==
    /\ pc = "col2"
    /\ IF ~IsFloat(ns.Kf) THEN Raise("TypeError", 145, ns, page)
       ELSE Goto("col3", ns, [page EXCEPT !.card_Kf = Fmt(ns.Kf, 2),
                                          !.card_kb = Fmt(ns.kb, 3)])

\* lines 153-170: the Safety Factor card or the warning, then the
\* Alternating Stress card
Col3 ==
    /\ pc = "col3"
    /\ IF HasStress(ns.sigma_ar)
       THEN IF ~IsFloat(ns.sigma_ar)
            THEN Raise("TypeError", 155, ns, page)
            ELSE IF ns.sigma_ar = Zero
            THEN Raise("ZeroDivisionError", 155, ns, page)
            ELSE LET sf == Div(ns.Se, ns.sigma_ar)
                     ns1 == [ns EXCEPT !.safety_factor = sf,
                                       !.status = IF IsSafe(sf)
                                                  THEN T("success")
                                                  ELSE T("warning")]
                     page1 == [page EXCEPT
                                 !.card_sf = Fmt(sf, 2),
                                 !.card_verdict = IF IsSafe(sf)
                                                  THEN T("Safe")
                                                  ELSE T("Marginal"),
                                 !.card_sigma = Fmt(ns.sigma_ar, 1)]
                 IN  Goto("table", ns1, page1)
       ELSE LET page1 == [page EXCEPT !.warning = Shown]
            IN  IF ~IsFloat(ns.sigma_ar)
                THEN Raise("TypeError", 169, ns, page1)
                ELSE Goto("table", ns,
                          [page1 EXCEPT !.card_sigma = Fmt(ns.sigma_ar, 1)])

\* lines 173-191: the detail table; a falsy Kf or sigma_ar shows "N/A"
Table ==
    /\ pc = "table"
    /\ LET page1 == [page EXCEPT
                       !.table_Kf = IF Truthy(ns.Kf) THEN Fmt(ns.Kf, 2)
                                    ELSE NA,
                       !.table_sigma = IF Truthy(ns.sigma_ar)
                                       THEN Fmt(ns.sigma_ar, 1) ELSE NA]
       IN  IF ~Truthy(ns.sigma_ar)
           THEN Goto("tab2", ns, [page1 EXCEPT !.table_sf = NA])
           ELSE IF ns.safety_factor = Unbound
           THEN Raise("NameError", 183, ns, page)
           ELSE Goto("tab2", ns,
                     [page1 EXCEPT !.table_sf = Fmt(ns.safety_factor, 2)])

\* lines 193-207: the reference diagrams
Tab2 ==
    /\ pc = "tab2"
    /\ Goto("tab3", ns, [page EXCEPT !.tab2 = Shown])

\* lines 209-228: the stress analysis text
Tab3 ==
    /\ pc = "tab3"
    /\ Goto("report", ns, [page EXCEPT !.tab3 = Shown])

\* lines 230-261: the report text reads Se, sigma_ar and safety_factor
Report ==
    /\ pc = "report"
    /\ IF ~IsFloat(ns.sigma_ar) THEN Raise("TypeError", 255, ns, page)
       ELSE IF ns.safety_factor = Unbound
       THEN Raise("NameError", 256, ns, page)
       ELSE Goto("download", ns,
                 [page EXCEPT
                    !.report_Se = Fmt(ns.Se, 1),
                    !.report_sigma = Fmt(ns.sigma_ar, 1),
                    !.report_sf = Fmt(ns.safety_factor, 2),
                    !.report_verdict = IF IsSafe(ns.safety_factor)
                                       THEN T("safe")
                                       ELSE T("potentially unsafe")])

\* lines 263-272: the download payload reads Se and safety_factor
Download ==
    /\ pc = "download"
    /\ IF ns.safety_factor = Unbound THEN Raise("NameError", 269, ns, page)
       ELSE Goto("footer", ns,
                 [page EXCEPT !.download_sf = Fmt(ns.safety_factor, 2)])

\* lines 274-279
Footer ==
    /\ pc = "footer"
    /\ Goto("done", ns, [page EXCEPT !.footer = Shown])

Ended == pc \in {"done", "error"}

\* a widget interaction after a pass: the script runs again from line 1
RerunWith(S) ==
    /\ Ended
    /\ widgets' \in Edits(widgets) \cap S
    /\ ns' = RerunNs
    /\ page' = EmptyPage
    /\ pc' = "sidebar"
    /\ exc' = NoExc
    /\ UNCHANGED prev

Rerun == RerunWith(Inputs)

Pass ==
    \/ Sidebar \/ Calc \/ Col1 \/ Col2 \/ Col3 \/ Table
    \/ Tab2 \/ Tab3 \/ Report \/ Download \/ Footer

StartWith(S) ==
    /\ widgets \in {Defaults} \cap S
    /\ ns = FreshNs
    /\ page = EmptyPage
    /\ pc = "sidebar"
    /\ exc = NoExc
    /\ prev = {}

Init == StartWith(Inputs)

Next == Pass \/ Rerun

Spec == Init /\ [][Next]_vars

-----------------------------------------------------------------------------
(* Two passes of one session side by side: prev keeps the end of an        *)
(* earlier pass (its widget values and everything it derived and rendered) *)
(* for comparison with the end of a later one.                             *)

PairInputs ==
    { w \in Inputs :
        /\ Geometry(w) = Geometry(Defaults)
        /\ Beam(w) \in { Beam(Defaults),
                         <<Lit(550, 0), Lit(250, 0), Lit(550, 0)>> }
        /\ w.UTS \in { Lit(100, 0), Lit(690, 0) } }

EndOfPass == [widgets |-> widgets, ns |-> ns, page |-> page, pc |-> pc,
              exc |-> exc]

\* the script runs again, and the pass that just ended is kept in prev
RerunKeepWith(S) ==
    /\ Ended
    /\ widgets' \in Edits(widgets) \cap S
    /\ ns' = RerunNs
    /\ page' = EmptyPage
    /\ pc' = "sidebar"
    /\ exc' = NoExc
    /\ prev' = {EndOfPass}

RerunPair == RerunWith(PairInputs)

RerunKeep == RerunKeepWith(PairInputs)

InitPair == StartWith(PairInputs)

NextPair == Pass \/ RerunPair \/ RerunKeep

SpecPair == InitPair /\ [][NextPair]_vars

-----------------------------------------------------------------------------
(* Claims *)

InNeuberRange(UTS) == Le(Lit(340, 0), UTS) /\ Le(UTS, Lit(1700, 0))

\* C1: when UTS is outside [340, 1700] the pass raises no exception and runs
\* to the footer, reporting Se, ka and kb and showing Kf, the alternating
\* stress and the safety factor as not applicable.
C1_UndefinedPropagates ==
    ~InNeuberRange(widgets.UTS) =>
        /\ pc # "error"
        /\ exc = NoExc
        /\ pc = "done" =>
             /\ page.footer = Shown
             /\ IsFloat(page.card_Se) /\ IsFloat(page.card_ka)
             /\ IsFloat(page.card_kb)
             /\ page.table_Kf = NA /\ page.table_sigma = NA
             /\ page.table_sf = NA

\* C2: once assigned, NC is a number exactly when 340 <= UTS <= 1700 (both
\* bounds included) and None for every other UTS; Kf is a number exactly
\* when NC is.
C2_NeuberDomain ==
    /\ ns.NC # Unbound =>
         /\ IsFloat(ns.NC) <=> InNeuberRange(widgets.UTS)
         /\ ~InNeuberRange(widgets.UTS) => ns.NC = None
    /\ ns.Kf # Unbound =>
         /\ IsFloat(ns.Kf) <=> IsFloat(ns.NC)
         /\ ~IsFloat(ns.NC) => ns.Kf = None

C2_Witness ==
    /\ widgets.UTS = Lit(340, 0)
    /\ IsFloat(ns.NC) /\ IsFloat(ns.Kf)

\* the size factor as the claim C3 states it
SizeFactorByDb(Db) ==
    IF Le(Lit(279, -2), Db) /\ Le(Db, Lit(51, 0))
    THEN Mul(Lit(124, -2), Pow(Db, Lit(-107, -3)))
    ELSE IF Lt(Lit(51, 0), Db) /\ Le(Db, Lit(254, 0))
    THEN Mul(Lit(151, -2), Pow(Db, Lit(-157, -3)))
    ELSE None

\* C3: kb is selected by Db (1.24 Db^-0.107 on [2.79, 51], 1.51 Db^-0.157 on
\* (51, 254], undefined elsewhere), and an undefined kb leaves Se and the
\* safety factor undefined.
C3_SizeFactorByDb ==
    ns.kb # Unbound =>
        /\ ns.kb = SizeFactorByDb(widgets.Db)
        /\ SizeFactorByDb(widgets.Db) = None =>
             /\ ns.Se = None
             /\ ~IsFloat(ns.safety_factor)

\* C4: with Kf defined and M_B <= 0 the pass produces no numeric safety
\* factor, raises no ZeroDivisionError and completes.
C4_NoFactorForNonPositiveDivisor ==
    (IsFloat(ns.Kf) /\ IsFloat(ns.M_B) /\ Le(ns.M_B, Zero)) =>
        /\ ~IsFloat(ns.safety_factor)
        /\ exc[1] # "ZeroDivisionError"
        /\ Ended => pc = "done"

\* C5 (as amended): a numeric safety factor is classified into exactly one
\* of two states by comparison with 1.5: above 1.5 it is safe, otherwise
\* marginal / potentially unsafe, on the Results card and in the Report
\* conclusion alike.
C5_VerdictAtOnePointFive ==
    /\ page.card_verdict # Absent =>
         /\ IsFloat(ns.safety_factor)
         /\ page.card_verdict =
              IF Gt(ns.safety_factor, Lit(15, -1)) THEN T("Safe")
              ELSE T("Marginal")
    /\ page.report_verdict # Absent =>
         /\ IsFloat(ns.safety_factor)
         /\ page.report_verdict =
              IF Gt(ns.safety_factor, Lit(15, -1)) THEN T("safe")
              ELSE T("potentially unsafe")
    /\ IsFloat(ns.safety_factor) /\ pc \in {"table", "tab2", "tab3", "report"}
         => page.card_verdict # Absent
    /\ IsFloat(ns.safety_factor) /\ pc \in {"download", "footer", "done"}
         => page.report_verdict # Absent

C5_Witness ==
    /\ pc = "done"
    /\ Gt(ns.safety_factor, One) /\ Le(ns.safety_factor, Lit(15, -1))
    /\ page.card_verdict = T("Marginal")
    /\ page.report_verdict = T("potentially unsafe")

\* C5 (as claimed): n > 1 is safe, n == 1 is a distinct critical state,
\* n < 1 is unsafe, on the card and in the report.
C5_ThreeStatesAtOne ==
    /\ page.card_verdict # Absent =>
         /\ Gt(ns.safety_factor, One) => page.card_verdict = T("Safe")
         /\ ns.safety_factor = One =>
              page.card_verdict \notin {T("Safe"), T("Marginal")}
         /\ Lt(ns.safety_factor, One) => page.card_verdict = T("Marginal")
    /\ page.report_verdict # Absent =>
         /\ Gt(ns.safety_factor, One) => page.report_verdict = T("safe")
         /\ ns.safety_factor = One =>
              page.report_verdict \notin {T("safe"), T("potentially unsafe")}
         /\ Lt(ns.safety_factor, One) =>
              page.report_verdict = T("potentially unsafe")

\* the finite-life state as the claim C6 states it
FiniteLifeState(sigma, Se, Sy) ==
    IF Le(sigma, Se) THEN T("INFINITE_LIFE")
    ELSE IF Ge(sigma, Sy) THEN T("NOT_APPLICABLE")
    ELSE T("FINITE_LIFE")

\* C6: a completed calculation reports exactly one finite-life state,
\* INFINITE_LIFE when sigma_ar <= Se, else NOT_APPLICABLE when
\* sigma_ar >= Sy, else FINITE_LIFE.
C6_FiniteLifeState ==
    pc = "done" =>
        /\ "life_state" \in DOMAIN page
        /\ page["life_state"] =
             FiniteLifeState(ns.sigma_ar, ns.Se, widgets.Sy)

C8_KtDefined ==
    pc # "sidebar" =>
        /\ exc[2] \notin {95, 97}
        /\ Gt(ns.r_ratio, Zero)
        /\ IsFloat(ns.Kt)
        /\ Ge(widgets.Da, widgets.Db) => Ge(ns.Kt, One)
        /\ widgets.Da = widgets.Db => ns.Kt = One

C8_Witness ==
    /\ pc = "calc"
    /\ Gt(widgets.Da, widgets.Db)
    /\ widgets.r = Lit(1, -1)
    /\ Gt(ns.Kt, One)

\* C9: no statement reads a name before the pass assigned it; the reads of
\* safety_factor in the table, the report and the download payload are
\* reached only after line 155 assigned it.
C9_ReadsAfterAssignment ==
    /\ exc[1] # "NameError"
    /\ (pc = "table" /\ Truthy(ns.sigma_ar)) => IsFloat(ns.safety_factor)
    /\ pc \in {"report", "download"} => IsFloat(ns.safety_factor)
    /\ \A el \in {"table_sf", "report_sf", "download_sf"} :
         IsFloat(page[el]) => IsFloat(ns.safety_factor)

C9_Witness ==
    /\ pc = "done"
    /\ IsFloat(page.table_sf) /\ IsFloat(page.report_sf)
    /\ IsFloat(page.download_sf)

\* the two widget states differ at most in Fa, Lfb, Sy, load_type and in
\* Steel versus Aluminum
SameRelevantInputs(v, w) ==
    /\ Geometry(v) = Geometry(w)
    /\ Beam(v) = Beam(w)
    /\ v.UTS = w.UTS
    /\ \/ Material(v) = Material(w)
       \/ {v.material_type, w.material_type} \subseteq {"Steel", "Aluminum"}

=============================================================================
